---------------------------- MODULE Spec2Model ----------------------------
(***************************************************************************)
(* Recipe composer and shopping-list aggregator of the foodgram backend    *)
(* (backend/api/serializers.py, backend/api/views.py,                      *)
(* backend/recipes/models.py).                                             *)
(*                                                                         *)
(* The database tables are sets of rows.  The source opens no transaction  *)
(* (no transaction.atomic anywhere in serializers.py or views.py), so      *)
(* every ORM statement is committed on its own (Django's autocommit): a    *)
(* statement that raises leaves the effects of the statements before it.   *)
(***************************************************************************)
EXTENDS Integers, Sequences, FiniteSets

VARIABLES
    Ingredient,         \* catalog: ingredient id -> [name, measurement_unit]
    Recipe,             \* rows [id, author, name]
    recipe_tags,        \* rows [recipe, tag]            (Recipe.tags)
    RecipeIngredients,  \* rows [recipe, ingredient, amount]
    Favorite,           \* rows [user, recipe]
    ShoppingCart,       \* rows [user, recipe]
    next_id,            \* next primary key of Recipe
    request,            \* the request handled last: [op, user, pk]
    last_validated,     \* serializer.validated_data of that request
    response,           \* its response: [status, rid, body]
    payload,            \* the payload SpecValidate validates
    Subscription,       \* rows [user, author]
    calls               \* the request each worker is in the middle of

vars == <<Ingredient, Recipe, recipe_tags, RecipeIngredients, Favorite,
          ShoppingCart, next_id, request, last_validated, response,
          payload, Subscription, calls>>

\* the processes that handle requests at the same time
Workers == {1, 2}

store == <<Ingredient, Recipe, recipe_tags, RecipeIngredients, Favorite,
           ShoppingCart>>

----------------------------------------------------------------------------
(* Bounds *)

\* recipes created in one behaviour
MaxRecipes == 2
\* entries of the "ingredients" list of a payload of SpecValidate
MaxEntries == 3

User == {1, 2}
Tag == {1, 2}
\* ids of the catalog; UnknownId is an id no catalog row has
IngredientIds == {1, 2}
UnknownId == Cardinality(IngredientIds) + 1
RecipeNames == {1, 2}

(* Strings are sequences of character codes: 1 is " ", 2 is "(", 3 is ")", *)
(* 4, 5, 6 are the letters "a", "b", "c".                                  *)
\* The rows a catalog may hold: "a" in "c", "a" in "b (c", "a (b" in "c".
IngredientRows ==
    {[name |-> <<4>>, measurement_unit |-> <<6>>],
     [name |-> <<4>>, measurement_unit |-> <<5, 1, 2, 6>>],
     [name |-> <<4, 1, 2, 5>>, measurement_unit |-> <<6>>]}

----------------------------------------------------------------------------
(* Values of the JSON payload (serializer.initial_data) *)

\* a JSON number
I(n) == [k |-> "int", v |-> n]
\* a JSON string holding the decimal numeral of n
S(n) == [k |-> "str", v |-> n]
\* a key that is absent: dict.get returns None
None == [k |-> "none", v |-> 0]

\* Python truth value: None and 0 are false, a non-empty string is true
Truthy(x) == \/ x.k = "str"
             \/ x.k = "int" /\ x.v # 0

\* int(x) of Python, and what IntegerField.to_internal_value returns
int(x) == x.v

SeqsUpTo(X, n) == UNION {[1..k -> X] : k \in 0..n}


----------------------------------------------------------------------------
(* RecipeCreateSerializer: field validation, validate *)

\* A payload is [tags, ingredients, name, text, cooking_time]: tags a list of
\* tag ids, ingredients a list of [id, amount], name / text 0 for the empty
\* string, cooking_time a number of minutes.

\* The fields declared on the serializers (serializer.to_internal_value, run
\* before validate): id and amount are required IntegerFields, tags are
\* primary keys of Tag, name and text may not be blank, cooking_time >= 1.
fields_valid(data) ==
    /\ \A i \in 1..Len(data.tags) : data.tags[i] \in Tag
    /\ \A i \in 1..Len(data.ingredients) :
          /\ data.ingredients[i].id.k # "none"
          /\ data.ingredients[i].amount.k # "none"
    /\ data.name # 0
    /\ data.text # 0
    /\ data.cooking_time >= 1

\* validated_data: what the fields return for a payload they accept
validated_data(data) ==
    [tags |-> {data.tags[i] : i \in 1..Len(data.tags)},
     recipeingredients |->
        [i \in 1..Len(data.ingredients) |->
            [id |-> int(data.ingredients[i].id),
             amount |-> int(data.ingredients[i].amount)]],
     name |-> data.name]

\* the loop over ('tags', 'ingredients', 'name', 'text', 'cooking_time')
missing_field(initial_data) ==
    \/ initial_data.tags = <<>>
    \/ initial_data.ingredients = <<>>
    \/ initial_data.name = 0
    \/ initial_data.text = 0
    \/ initial_data.cooking_time = 0

\* validate with one loop per rule: every entry is checked for a missing
\* amount or id, then every entry for its amount, then for a repeated id
validate_ingredients_by_rule(ingredients, i, ingredients_set) ==
    IF \E j \in i..Len(ingredients) :
          ~Truthy(ingredients[j].amount) \/ ~Truthy(ingredients[j].id)
       THEN "IncompleteIngredient"
    ELSE IF \E j \in i..Len(ingredients) : ~(int(ingredients[j].amount) > 0)
       THEN "InvalidAmount"
    ELSE IF \E j, l \in i..Len(ingredients) :
               j # l /\ ingredients[j].id = ingredients[l].id
       THEN "DuplicateIngredient"
    ELSE "ok"

\* the loop of validate without the test of the amount
RECURSIVE validate_ingredients_any_amount(_, _, _)
validate_ingredients_any_amount(ingredients, i, ingredients_set) ==
    IF i > Len(ingredients) THEN "ok"
    ELSE LET ingredient == ingredients[i] IN
         IF ~Truthy(ingredient.amount) \/ ~Truthy(ingredient.id)
            THEN "IncompleteIngredient"
         ELSE IF ingredient.id \in ingredients_set
            THEN "DuplicateIngredient"
         ELSE validate_ingredients_any_amount(ingredients, i + 1,
                  ingredients_set \cup {ingredient.id})

\* the loop over the ingredients, from entry i on, ingredients_set holding the
\* raw ids of the entries before i
RECURSIVE validate_ingredients(_, _, _)
validate_ingredients(ingredients, i, ingredients_set) ==
    IF i > Len(ingredients) THEN "ok"
    ELSE LET ingredient == ingredients[i] IN
         IF ~Truthy(ingredient.amount) \/ ~Truthy(ingredient.id)
            THEN "IncompleteIngredient"
         ELSE IF ~(int(ingredient.amount) > 0)
            THEN "InvalidAmount"
         ELSE IF ingredient.id \in ingredients_set
            THEN "DuplicateIngredient"
         ELSE validate_ingredients(ingredients, i + 1,
                                   ingredients_set \cup {ingredient.id})

validate(initial_data) ==
    IF missing_field(initial_data) THEN "MissingField"
    ELSE validate_ingredients(initial_data.ingredients, 1, {})

\* serializer.is_valid: the fields first, then validate
is_valid(data) ==
    IF ~fields_valid(data) THEN "FieldError" ELSE validate(data)

ValidationErrors == {"FieldError", "MissingField", "IncompleteIngredient",
                     "InvalidAmount", "DuplicateIngredient"}

----------------------------------------------------------------------------
(* The tables a recipe write touches, as one value *)

db_now == [Recipe |-> Recipe, recipe_tags |-> recipe_tags,
           RecipeIngredients |-> RecipeIngredients]

\* RecipeIngredients.objects.bulk_create(rows): one INSERT of all the rows; the
\* unique constraint on (recipe, ingredient) and the PositiveIntegerField check
\* refuse the whole statement.
bulk_create(db, rows) ==
    IF \/ \E i, j \in 1..Len(rows) :
             /\ i # j
             /\ rows[i].recipe = rows[j].recipe
             /\ rows[i].ingredient = rows[j].ingredient
       \/ \E i \in 1..Len(rows) : \E old \in db.RecipeIngredients :
             /\ old.recipe = rows[i].recipe
             /\ old.ingredient = rows[i].ingredient
       \/ \E i \in 1..Len(rows) : rows[i].amount < 0
    THEN [db |-> db, status |-> "IntegrityError"]
    ELSE [db |-> [db EXCEPT !.RecipeIngredients =
                        @ \cup {rows[i] : i \in 1..Len(rows)}],
          status |-> "ok"]

\* create_recipe_ingredient with bulk_create run before the last entry is
\* appended
create_recipe_ingredient_skips_last(db, recipe, ingredients) ==
    IF \E i \in 1..Len(ingredients) : ingredients[i].id \notin DOMAIN Ingredient
    THEN [db |-> db, status |-> "UnknownIngredient"]
    ELSE bulk_create(db,
            [i \in 1..(Len(ingredients) - 1) |->
                [recipe |-> recipe,
                 ingredient |-> ingredients[i].id,
                 amount |-> ingredients[i].amount]])

\* RecipeCreateSerializer.create_recipe_ingredient: Ingredient.objects.get for
\* every entry (DoesNotExist for an id outside the catalog), then bulk_create.
create_recipe_ingredient(db, recipe, ingredients) ==
    IF \E i \in 1..Len(ingredients) : ingredients[i].id \notin DOMAIN Ingredient
    THEN [db |-> db, status |-> "UnknownIngredient"]
    ELSE bulk_create(db,
            [i \in 1..Len(ingredients) |->
                [recipe |-> recipe,
                 ingredient |-> ingredients[i].id,
                 amount |-> ingredients[i].amount]])

\* recipe.tags.set(tags)
tags_set(db, recipe, tags) ==
    [db EXCEPT !.recipe_tags =
        {row \in @ : row.recipe # recipe \/ row.tag \in tags}
        \cup {[recipe |-> recipe, tag |-> t] : t \in tags}]

\* instance.tags.clear()
tags_clear(db, recipe) ==
    [db EXCEPT !.recipe_tags = {row \in @ : row.recipe # recipe}]

\* instance.ingredients.clear()
ingredients_clear(db, recipe) ==
    [db EXCEPT !.RecipeIngredients = {row \in @ : row.recipe # recipe}]

\* the unique constraint on (author, name) of Recipe, for a row other than pk
name_taken(db, pk, author, name) ==
    \E r \in db.Recipe : r.id # pk /\ r.author = author /\ r.name = name

\* RecipeCreateSerializer.create, with pk the primary key the insert assigns
create(db, pk, author, validated) ==
    IF name_taken(db, pk, author, validated.name)
    THEN [db |-> db, status |-> "DuplicateRecipe", rid |-> 0]
    ELSE LET db1 == [db EXCEPT !.Recipe = @ \cup
                        {[id |-> pk, author |-> author,
                          name |-> validated.name]}]
             db2 == tags_set(db1, pk, validated.tags)
             res == create_recipe_ingredient(db2, pk,
                                             validated.recipeingredients)
         IN  [db |-> res.db, status |-> res.status, rid |-> pk]

\* ModelSerializer.update (super().update): assigns the remaining attributes
\* and saves the row
save_fields(db, instance, validated) ==
    IF name_taken(db, instance.id, instance.author, validated.name)
    THEN [db |-> db, status |-> "DuplicateRecipe"]
    ELSE [db |-> [db EXCEPT !.Recipe = (@ \ {instance}) \cup
                        {[instance EXCEPT !.name = validated.name]}],
          status |-> "ok"]

\* update without the two clear() calls
update_without_clear(db, instance, validated) ==
    LET saved == save_fields(db, instance, validated)
    IN  IF saved.status # "ok"
        THEN [db |-> saved.db, status |-> saved.status, rid |-> instance.id]
        ELSE LET db3 == [saved.db EXCEPT !.recipe_tags = @ \cup
                            {[recipe |-> instance.id, tag |-> t] :
                                t \in validated.tags}]
                 res == create_recipe_ingredient(db3, instance.id,
                                                 validated.recipeingredients)
             IN  [db |-> res.db, status |-> res.status, rid |-> instance.id]

\* RecipeCreateSerializer.update
update(db, instance, validated) ==
    LET db1 == ingredients_clear(db, instance.id)
        db2 == tags_clear(db1, instance.id)
        saved == save_fields(db2, instance, validated)
    IN  IF saved.status # "ok"
        THEN [db |-> saved.db, status |-> saved.status, rid |-> instance.id]
        ELSE LET db3 == tags_set(saved.db, instance.id, validated.tags)
                 res == create_recipe_ingredient(db3, instance.id,
                                                 validated.recipeingredients)
             IN  [db |-> res.db, status |-> res.status, rid |-> instance.id]

WriteErrors == {"DuplicateRecipe", "UnknownIngredient", "IntegrityError"}

----------------------------------------------------------------------------
(* RecipeViewSet: create, update, destroy *)

\* serializer.validated_data; NoValidated while is_valid has not accepted
NoValidated == [tags |-> {}, recipeingredients |-> <<>>, name |-> 0]

\* ModelViewSet.create with RecipeCreateSerializer: is_valid, then save
post_recipe(db, pk, user, data) ==
    IF is_valid(data) # "ok"
    THEN [db |-> db, status |-> is_valid(data), rid |-> 0,
          validated |-> NoValidated]
    ELSE LET res == create(db, pk, user, validated_data(data)) IN
         [db |-> res.db, status |-> res.status, rid |-> res.rid,
          validated |-> validated_data(data)]

\* get_object without the permission IsAuthorOrReadOnly
get_object_any_user(db, user, pk) ==
    IF ~\E r \in db.Recipe : r.id = pk THEN "NotFound" ELSE "ok"

\* get_object: 404 for no such recipe, then IsAuthorOrReadOnly
get_object(db, user, pk) ==
    IF ~\E r \in db.Recipe : r.id = pk THEN "NotFound"
    ELSE IF (CHOOSE r \in db.Recipe : r.id = pk).author # user THEN "Forbidden"
    ELSE "ok"

\* put_recipe with the associations cleared before is_valid is asked
put_recipe_clears_first(db, user, pk, data) ==
    IF get_object(db, user, pk) # "ok"
    THEN [db |-> db, status |-> get_object(db, user, pk), rid |-> pk,
          validated |-> NoValidated]
    ELSE IF is_valid(data) # "ok"
    THEN [db |-> tags_clear(ingredients_clear(db, pk), pk),
          status |-> is_valid(data), rid |-> pk, validated |-> NoValidated]
    ELSE LET res == update(db, CHOOSE r \in db.Recipe : r.id = pk,
                           validated_data(data)) IN
         [db |-> res.db, status |-> res.status, rid |-> res.rid,
          validated |-> validated_data(data)]

\* ModelViewSet.update with RecipeCreateSerializer: get_object, is_valid, save
put_recipe(db, user, pk, data) ==
    IF get_object(db, user, pk) # "ok"
    THEN [db |-> db, status |-> get_object(db, user, pk), rid |-> pk,
          validated |-> NoValidated]
    ELSE IF is_valid(data) # "ok"
    THEN [db |-> db, status |-> is_valid(data), rid |-> pk,
          validated |-> NoValidated]
    ELSE LET res == update(db, CHOOSE r \in db.Recipe : r.id = pk,
                           validated_data(data)) IN
         [db |-> res.db, status |-> res.status, rid |-> res.rid,
          validated |-> validated_data(data)]

\* ModelViewSet.destroy: get_object, then instance.delete() with its cascade
destroy(user, pk) ==
    IF get_object(db_now, user, pk) # "ok"
    THEN [Recipe |-> Recipe, recipe_tags |-> recipe_tags,
          RecipeIngredients |-> RecipeIngredients, Favorite |-> Favorite,
          ShoppingCart |-> ShoppingCart,
          status |-> get_object(db_now, user, pk)]
    ELSE [Recipe |-> {r \in Recipe : r.id # pk},
          recipe_tags |-> {row \in recipe_tags : row.recipe # pk},
          RecipeIngredients |-> {row \in RecipeIngredients : row.recipe # pk},
          Favorite |-> {row \in Favorite : row.recipe # pk},
          ShoppingCart |-> {row \in ShoppingCart : row.recipe # pk},
          status |-> "NoContent"]

----------------------------------------------------------------------------
(* RecipeViewSet: favorite, shopping_cart *)

\* create_recipe_user taking every get_or_create for a creation
create_recipe_user_always_created(table, user, pk) ==
    IF ~\E r \in Recipe : r.id = pk
    THEN [table |-> table, status |-> "NotFound"]
    ELSE [table |-> table \cup {[user |-> user, recipe |-> pk]},
          status |-> "Created"]

\* create_recipe_user(request, pk, model), model given by its table
create_recipe_user(table, user, pk) ==
    IF ~\E r \in Recipe : r.id = pk
    THEN [table |-> table, status |-> "NotFound"]
    ELSE IF [user |-> user, recipe |-> pk] \in table
    THEN [table |-> table, status |-> "AlreadyExists"]
    ELSE [table |-> table \cup {[user |-> user, recipe |-> pk]},
          status |-> "Created"]

\* delete_recipe_user(request, pk, model)
delete_recipe_user(table, user, pk) ==
    IF ~\E r \in Recipe : r.id = pk
    THEN [table |-> table, status |-> "NotFound"]
    ELSE IF [user |-> user, recipe |-> pk] \notin table
    THEN [table |-> table, status |-> "NotFound"]
    ELSE [table |-> table \ {[user |-> user, recipe |-> pk]},
          status |-> "NoContent"]

----------------------------------------------------------------------------
(* RecipeViewSet: download_shopping_cart *)

Min(a, b) == IF a < b THEN a ELSE b

\* a <= b for strings
LexLeq(a, b) ==
    \/ \E k \in 1..Min(Len(a), Len(b)) :
          /\ \A i \in 1..(k - 1) : a[i] = b[i]
          /\ a[k] < b[k]
    \/ /\ Len(a) <= Len(b)
       /\ \A i \in 1..Len(a) : a[i] = b[i]

\* the rows of the recipes in the cart of any user
cart_rows_of_everyone(user) ==
    {row \in RecipeIngredients :
        \E u \in User : [user |-> u, recipe |-> row.recipe] \in ShoppingCart}

\* RecipeIngredients.objects.filter(recipe__shopping_cart__user=user)
cart_rows(user) ==
    {row \in RecipeIngredients :
        [user |-> user, recipe |-> row.recipe] \in ShoppingCart}

\* the rows in any order: the queryset without order_by
RECURSIVE any_order(_)
any_order(rows) ==
    IF rows = {} THEN {<<>>}
    ELSE UNION {{<<first>> \o rest : rest \in any_order(rows \ {first})} :
                first \in rows}

\* .order_by('ingredient__name'): every order of the rows that is ascending in
\* the name; the database is free among rows of one name
RECURSIVE order_by_name(_)
order_by_name(rows) ==
    IF rows = {} THEN {<<>>}
    ELSE UNION {{<<first>> \o rest : rest \in order_by_name(rows \ {first})} :
                first \in {r \in rows : \A o \in rows :
                              LexLeq(Ingredient[r.ingredient].name,
                                     Ingredient[o.ingredient].name)}}

\* .values('ingredient__name', 'ingredient__measurement_unit', 'amount')
values(rows) ==
    [i \in 1..Len(rows) |->
        [ingredient__name |-> Ingredient[rows[i].ingredient].name,
         ingredient__measurement_unit |->
            Ingredient[rows[i].ingredient].measurement_unit,
         amount |-> rows[i].amount]]

\* f'{ingredient_name} ({measurement_unit})'
key(ingredient_name, measurement_unit) ==
    ingredient_name \o <<1, 2>> \o measurement_unit \o <<3>>

\* ingredient_data[k] += amount on a defaultdict(int), which keeps the keys in
\* the order of their first insertion
add_amount(ingredient_data, k, amount) ==
    IF \E j \in 1..Len(ingredient_data) : ingredient_data[j].key = k
    THEN [j \in 1..Len(ingredient_data) |->
            IF ingredient_data[j].key = k
            THEN [ingredient_data[j] EXCEPT !.amount = @ + amount]
            ELSE ingredient_data[j]]
    ELSE Append(ingredient_data, [key |-> k, amount |-> amount])

RECURSIVE collect(_, _, _)
collect(queryset, i, ingredient_data) ==
    IF i > Len(queryset) THEN ingredient_data
    ELSE collect(queryset, i + 1,
                 add_amount(ingredient_data,
                            key(queryset[i].ingredient__name,
                                queryset[i].ingredient__measurement_unit),
                            queryset[i].amount))

\* the line 'Список продуктов: \n'
Header == [key |-> <<>>, amount |-> 0]

\* create_ingredient_list(queryset): the header, then a line
\* f'{ingredient} - {amount} \n' for every key
create_ingredient_list(queryset) ==
    <<Header>> \o collect(queryset, 1, <<>>)

----------------------------------------------------------------------------
(* Requests *)

RecipeIds == 1..MaxRecipes

entry(id, amount) == [id |-> id, amount |-> amount]

\* ingredient lists the fields and validate accept
ValidLists ==
    {<<entry(I(1), I(1))>>,
     <<entry(I(2), I(2))>>,
     <<entry(I(1), I(1)), entry(I(2), I(2))>>,
     <<entry(I(2), I(2)), entry(I(1), I(1))>>,
     <<entry(I(UnknownId), I(1))>>,
     <<entry(I(1), I(1)), entry(S(1), I(2))>>}

\* ingredient lists the fields or validate refuse
InvalidLists ==
    {<<>>,
     <<entry(I(1), I(0))>>,
     <<entry(I(1), S(0))>>,
     <<entry(I(1), None)>>,
     <<entry(I(1), I(1)), entry(I(1), I(2))>>}

Payloads ==
    [tags : {<<1>>, <<2, 1>>}, ingredients : ValidLists,
     name : RecipeNames, text : {1}, cooking_time : {1}]
    \cup
    [tags : {<<1>>}, ingredients : InvalidLists,
     name : {1}, text : {1}, cooking_time : {1}]
    \cup
    [tags : {<<>>}, ingredients : {<<entry(I(1), I(1))>>},
     name : {1}, text : {1}, cooking_time : {1}]

NoData == [tags |-> <<>>, ingredients |-> <<>>, name |-> 0, text |-> 0,
           cooking_time |-> 0]

Catalogs == [IngredientIds -> IngredientRows]

NoRequest == [op |-> "none", user |-> 0, pk |-> 0]
NoResponse == [status |-> "none", rid |-> 0, body |-> <<>>]

\* a worker that handles no request
NoCall == [op |-> "none", user |-> 0, pk |-> 0, pc |-> "idle",
           validated |-> NoValidated, status |-> "none"]

EmptyStore ==
    /\ Recipe = {}
    /\ recipe_tags = {}
    /\ RecipeIngredients = {}
    /\ Favorite = {}
    /\ ShoppingCart = {}
    /\ Subscription = {}
    /\ next_id = 1
    /\ calls = [w \in Workers |-> NoCall]

Init ==
    /\ Ingredient = [i \in IngredientIds |->
                        [name |-> <<4>>, measurement_unit |-> <<6>>]]
    /\ EmptyStore
    /\ request = NoRequest
    /\ last_validated = NoValidated
    /\ response = NoResponse
    /\ payload = NoData

\* POST /recipes/
recipe_create(user, data) ==
    LET res == post_recipe(db_now, next_id, user, data) IN
    /\ res.rid = 0 \/ next_id <= MaxRecipes
    /\ Recipe' = res.db.Recipe
    /\ recipe_tags' = res.db.recipe_tags
    /\ RecipeIngredients' = res.db.RecipeIngredients
    /\ next_id' = IF res.rid = 0 THEN next_id ELSE next_id + 1
    /\ request' = [op |-> "create", user |-> user, pk |-> 0]
    /\ last_validated' = res.validated
    /\ response' = [status |-> res.status, rid |-> res.rid, body |-> <<>>]
    /\ UNCHANGED <<Ingredient, Favorite, ShoppingCart, payload, Subscription, calls>>

\* PUT /recipes/{pk}/
recipe_update(user, pk, data) ==
    LET res == put_recipe(db_now, user, pk, data) IN
    /\ Recipe' = res.db.Recipe
    /\ recipe_tags' = res.db.recipe_tags
    /\ RecipeIngredients' = res.db.RecipeIngredients
    /\ request' = [op |-> "update", user |-> user, pk |-> pk]
    /\ last_validated' = res.validated
    /\ response' = [status |-> res.status, rid |-> res.rid, body |-> <<>>]
    /\ UNCHANGED <<Ingredient, Favorite, ShoppingCart, next_id, payload, Subscription, calls>>

\* DELETE /recipes/{pk}/
recipe_destroy(user, pk) ==
    LET res == destroy(user, pk) IN
    /\ Recipe' = res.Recipe
    /\ recipe_tags' = res.recipe_tags
    /\ RecipeIngredients' = res.RecipeIngredients
    /\ Favorite' = res.Favorite
    /\ ShoppingCart' = res.ShoppingCart
    /\ request' = [op |-> "destroy", user |-> user, pk |-> pk]
    /\ last_validated' = NoValidated
    /\ response' = [status |-> res.status, rid |-> pk, body |-> <<>>]
    /\ UNCHANGED <<Ingredient, next_id, payload, Subscription, calls>>

\* POST and DELETE /recipes/{pk}/favorite/
favorite(user, pk, method) ==
    LET res == IF method = "POST"
               THEN create_recipe_user(Favorite, user, pk)
               ELSE delete_recipe_user(Favorite, user, pk) IN
    /\ Favorite' = res.table
    /\ request' = [op |-> "favorite_" \o method, user |-> user, pk |-> pk]
    /\ last_validated' = NoValidated
    /\ response' = [status |-> res.status, rid |-> pk, body |-> <<>>]
    /\ UNCHANGED <<Ingredient, Recipe, recipe_tags, RecipeIngredients,
                   ShoppingCart, next_id, payload, Subscription, calls>>

\* POST and DELETE /recipes/{pk}/shopping_cart/
shopping_cart(user, pk, method) ==
    LET res == IF method = "POST"
               THEN create_recipe_user(ShoppingCart, user, pk)
               ELSE delete_recipe_user(ShoppingCart, user, pk) IN
    /\ ShoppingCart' = res.table
    /\ request' = [op |-> "shopping_cart_" \o method, user |-> user,
                   pk |-> pk]
    /\ last_validated' = NoValidated
    /\ response' = [status |-> res.status, rid |-> pk, body |-> <<>>]
    /\ UNCHANGED <<Ingredient, Recipe, recipe_tags, RecipeIngredients,
                   Favorite, next_id, payload, Subscription, calls>>

\* GET /recipes/download_shopping_cart/
download_shopping_cart(user) ==
    \E ingredients \in order_by_name(cart_rows(user)) :
       /\ request' = [op |-> "download", user |-> user, pk |-> 0]
       /\ last_validated' = NoValidated
       /\ response' = [status |-> "ok", rid |-> 0,
                       body |-> create_ingredient_list(values(ingredients))]
       /\ UNCHANGED <<Ingredient, Recipe, recipe_tags, RecipeIngredients,
                      Favorite, ShoppingCart, next_id, payload, Subscription, calls>>

----------------------------------------------------------------------------
(* The recipe composer: the create, update and destroy requests of an      *)
(* author.  These requests neither read nor write Favorite and             *)
(* ShoppingCart rows other than through the cascade of destroy.            *)

Authors == {1}

Next ==
    \/ \E user \in Authors, data \in Payloads : recipe_create(user, data)
    \/ \E user \in Authors, pk \in RecipeIds, data \in Payloads :
          recipe_update(user, pk, data)
    \/ \E user \in Authors, pk \in RecipeIds : recipe_destroy(user, pk)

Spec == Init /\ [][Next]_vars

----------------------------------------------------------------------------
(* Recipes of several users: every user creates recipes and sends update   *)
(* and delete requests for any recipe, their own or not.                   *)

OwnerPayloads ==
    [tags : {<<1>>, <<2>>},
     ingredients : {<<entry(I(1), I(1))>>, <<entry(I(2), I(2))>>},
     name : {1}, text : {1}, cooking_time : {1}]

NextOwner ==
    \/ \E user \in User, data \in OwnerPayloads : recipe_create(user, data)
    \/ \E user \in User, pk \in RecipeIds, data \in OwnerPayloads :
          recipe_update(user, pk, data)
    \/ \E user \in User, pk \in RecipeIds : recipe_destroy(user, pk)

SpecOwner == Init /\ [][NextOwner]_vars

----------------------------------------------------------------------------
(* Validation alone: is_valid applied to a payload *)

RawIdsV == {I(1), S(1), I(2), None}
RawAmountsV == {I(0), S(0), I(-1), I(1), None}

PayloadsV ==
    [tags : {<<>>, <<1>>},
     ingredients : SeqsUpTo([id : RawIdsV, amount : RawAmountsV], MaxEntries),
     name : {1}, text : {1}, cooking_time : {1}]

InitValidate ==
    /\ Ingredient = [i \in IngredientIds |->
                        [name |-> <<4>>, measurement_unit |-> <<6>>]]
    /\ EmptyStore
    /\ request = [op |-> "validate", user |-> 1, pk |-> 0]
    /\ last_validated = NoValidated
    /\ response = NoResponse
    /\ payload \in PayloadsV

\* serializer.is_valid() on the payload
run_validation ==
    /\ response = NoResponse
    /\ response' = [status |-> is_valid(payload), rid |-> 0, body |-> <<>>]
    /\ last_validated' = IF is_valid(payload) = "ok"
                         THEN validated_data(payload) ELSE NoValidated
    /\ UNCHANGED <<Ingredient, Recipe, recipe_tags, RecipeIngredients,
                   Favorite, ShoppingCart, next_id, request, payload, Subscription, calls>>

NextValidate == run_validation

SpecValidate == InitValidate /\ [][NextValidate]_vars

----------------------------------------------------------------------------
(* The shopping cart: recipes are created with valid payloads and          *)
(* destroyed, users fill and empty their carts and download the list; the  *)
(* catalog is any assignment of names and units to the ingredient ids.     *)

CartLists ==
    {<<entry(I(1), I(1))>>,
     <<entry(I(1), I(2)), entry(I(2), I(1))>>}

CartPayloads ==
    [tags : {<<1>>}, ingredients : CartLists,
     name : {1}, text : {1}, cooking_time : {1}]

InitCart ==
    /\ Ingredient \in Catalogs
    /\ EmptyStore
    /\ request = NoRequest
    /\ last_validated = NoValidated
    /\ response = NoResponse
    /\ payload = NoData

NextCart ==
    \/ \E user \in User, data \in CartPayloads : recipe_create(user, data)
    \/ \E user \in User, pk \in RecipeIds : recipe_destroy(user, pk)
    \/ \E user \in User, pk \in RecipeIds, method \in {"POST", "DELETE"} :
          shopping_cart(user, pk, method)
    \/ \E user \in User : download_shopping_cart(user)

SpecCart == InitCart /\ [][NextCart]_vars

----------------------------------------------------------------------------
(* Favorites and carts: recipes are created and destroyed, users add and   *)
(* remove them as favorites and in their carts.                            *)

TogglePayloads ==
    [tags : {<<1>>}, ingredients : {<<entry(I(1), I(1))>>},
     name : {1}, text : {1}, cooking_time : {1}]

NextToggle ==
    \/ \E user \in User, data \in TogglePayloads : recipe_create(user, data)
    \/ \E user \in User, pk \in RecipeIds : recipe_destroy(user, pk)
    \/ \E user \in User, pk \in RecipeIds, method \in {"POST", "DELETE"} :
          favorite(user, pk, method)
    \/ \E user \in User, pk \in RecipeIds, method \in {"POST", "DELETE"} :
          shopping_cart(user, pk, method)

SpecToggle == Init /\ [][NextToggle]_vars

----------------------------------------------------------------------------
(* Requests handled at the same time.  Each worker handles one request     *)
(* after the other; a request is a sequence of database statements, each   *)
(* committed on its own, and the statements of two workers interleave.     *)

\* an id no User row has
NoUser == Cardinality(User) + 1

\* the worker w is free to take a request
free(w) == calls[w].pc \in {"idle", "done"}

done(call, status) == [call EXCEPT !.pc = "done", !.status = status]

\* subscribe after the queryset was evaluated, without the comparison of the
\* author with the requesting user
subscribe_evaluated_no_self_check(call, subscription) ==
    IF call.op = "subscribe_DELETE"
    THEN IF ~subscription THEN done(call, "NotSubscribed")
         ELSE [call EXCEPT !.pc = "delete"]
    ELSE IF subscription THEN done(call, "AlreadyExists")
    ELSE [call EXCEPT !.pc = "create"]

\* CustomUserViewSet.subscribe from the evaluation of the queryset
\* `subscription` to the statement that writes: `if not subscription` of a
\* DELETE, `if subscription` and `if author == request.user` of a POST
subscribe_evaluated(call, subscription) ==
    IF call.op = "subscribe_DELETE"
    THEN IF ~subscription THEN done(call, "NotSubscribed")
         ELSE [call EXCEPT !.pc = "delete"]
    ELSE IF subscription THEN done(call, "AlreadyExists")
    ELSE IF call.pk = call.user THEN done(call, "SelfSubscription")
    ELSE [call EXCEPT !.pc = "create"]

\* Subscription.objects.create(user, author) with the unique constraint on
\* (user, author) and the check constraint user # author
Subscription_create(table, user, author) ==
    IF [user |-> user, author |-> author] \in table \/ user = author
    THEN [table |-> table, status |-> "IntegrityError"]
    ELSE [table |-> table \cup {[user |-> user, author |-> author]},
          status |-> "Created"]

\* POST or DELETE /users/{pk}/subscribe/ arrives at worker w:
\* get_object_or_404(User, id=pk); the queryset is built, not yet evaluated
subscribe_begin(w, user, pk, method) ==
    LET call == [NoCall EXCEPT !.op = "subscribe_" \o method,
                               !.user = user, !.pk = pk] IN
    /\ free(w)
    /\ calls' = [calls EXCEPT ![w] =
                    IF pk \notin User THEN done(call, "NotFound")
                    ELSE [call EXCEPT !.pc = "filter"]]
    /\ UNCHANGED <<store, Subscription, next_id, request, last_validated,
                   response, payload>>

\* the queryset is evaluated and the branches on it are taken
subscribe_filter(w) ==
    /\ calls[w].pc = "filter"
    /\ calls' = [calls EXCEPT ![w] =
                    subscribe_evaluated(calls[w],
                        [user |-> calls[w].user, author |-> calls[w].pk]
                            \in Subscription)]
    /\ UNCHANGED <<store, Subscription, next_id, request, last_validated,
                   response, payload>>

\* subscription.delete()
subscribe_delete(w) ==
    /\ calls[w].pc = "delete"
    /\ Subscription' = Subscription \
                          {[user |-> calls[w].user, author |-> calls[w].pk]}
    /\ calls' = [calls EXCEPT ![w] = done(calls[w], "NoContent")]
    /\ UNCHANGED <<store, next_id, request, last_validated, response,
                   payload>>

\* Subscription.objects.create(user=request.user, author=author)
subscribe_create(w) ==
    LET res == Subscription_create(Subscription, calls[w].user, calls[w].pk)
    IN
    /\ calls[w].pc = "create"
    /\ Subscription' = res.table
    /\ calls' = [calls EXCEPT ![w] = done(calls[w], res.status)]
    /\ UNCHANGED <<store, next_id, request, last_validated, response,
                   payload>>

\* the table of a favorite_* or shopping_cart_* request
table_of(call) ==
    IF call.op \in {"favorite_POST", "favorite_DELETE"}
    THEN Favorite ELSE ShoppingCart

\* the row (user, recipe) of a request
row_of(call) == [user |-> call.user, recipe |-> call.pk]

\* POST or DELETE on /recipes/{pk}/favorite/ or /recipes/{pk}/shopping_cart/
\* arrives at worker w: get_object_or_404(Recipe, id=pk)
recipe_user_begin(w, kind, user, pk, method) ==
    LET call == [NoCall EXCEPT !.op = kind \o "_" \o method,
                               !.user = user, !.pk = pk] IN
    /\ free(w)
    /\ kind \in {"favorite", "shopping_cart"}
    /\ calls' = [calls EXCEPT ![w] =
                    IF ~\E r \in Recipe : r.id = pk
                    THEN done(call, "NotFound")
                    ELSE [call EXCEPT !.pc = "get"]]
    /\ UNCHANGED <<store, Subscription, next_id, request, last_validated,
                   response, payload>>

\* the SELECT of model.objects.get_or_create (POST) or of
\* get_object_or_404(model, user, recipe) (DELETE)
recipe_user_get(w) ==
    LET call == calls[w]
        found == row_of(call) \in table_of(call) IN
    /\ call.pc = "get"
    /\ calls' = [calls EXCEPT ![w] =
                    IF call.op \in {"favorite_POST", "shopping_cart_POST"}
                    THEN IF found THEN done(call, "AlreadyExists")
                         ELSE [call EXCEPT !.pc = "insert"]
                    ELSE IF found THEN [call EXCEPT !.pc = "delete_row"]
                         ELSE done(call, "NotFound")]
    /\ UNCHANGED <<store, Subscription, next_id, request, last_validated,
                   response, payload>>

\* the INSERT of get_or_create: on a violated unique constraint get_or_create
\* reads the row again and returns it with created = False
get_or_create_insert(table, call) ==
    IF ~\E r \in Recipe : r.id = call.pk
    THEN [table |-> table, status |-> "IntegrityError"]
    ELSE IF row_of(call) \in table
    THEN [table |-> table, status |-> "AlreadyExists"]
    ELSE [table |-> table \cup {row_of(call)}, status |-> "Created"]

recipe_user_insert(w) ==
    LET call == calls[w]
        res == get_or_create_insert(table_of(call), call) IN
    /\ call.pc = "insert"
    /\ IF call.op = "favorite_POST"
       THEN Favorite' = res.table /\ UNCHANGED ShoppingCart
       ELSE ShoppingCart' = res.table /\ UNCHANGED Favorite
    /\ calls' = [calls EXCEPT ![w] = done(call, res.status)]
    /\ UNCHANGED <<Ingredient, Recipe, recipe_tags, RecipeIngredients,
                   Subscription, next_id, request, last_validated, response,
                   payload>>

\* obj.delete()
recipe_user_delete(w) ==
    LET call == calls[w] IN
    /\ call.pc = "delete_row"
    /\ IF call.op = "favorite_DELETE"
       THEN Favorite' = Favorite \ {row_of(call)} /\ UNCHANGED ShoppingCart
       ELSE ShoppingCart' = ShoppingCart \ {row_of(call)}
            /\ UNCHANGED Favorite
    /\ calls' = [calls EXCEPT ![w] = done(call, "NoContent")]
    /\ UNCHANGED <<Ingredient, Recipe, recipe_tags, RecipeIngredients,
                   Subscription, next_id, request, last_validated, response,
                   payload>>

\* a recipe of user 1 exists
InitRace ==
    /\ Ingredient = [i \in IngredientIds |->
                        [name |-> <<4>>, measurement_unit |-> <<6>>]]
    /\ Recipe = {[id |-> 1, author |-> 1, name |-> 1]}
    /\ recipe_tags = {[recipe |-> 1, tag |-> 1]}
    /\ RecipeIngredients = {[recipe |-> 1, ingredient |-> 1, amount |-> 1]}
    /\ Favorite = {}
    /\ ShoppingCart = {}
    /\ Subscription = {}
    /\ next_id = 2
    /\ calls = [w \in Workers |-> NoCall]
    /\ request = NoRequest
    /\ last_validated = NoValidated
    /\ response = NoResponse
    /\ payload = NoData

NextRace ==
    \/ \E w \in Workers, user \in User, pk \in User \cup {NoUser},
          method \in {"POST", "DELETE"} : subscribe_begin(w, user, pk, method)
    \/ \E w \in Workers : subscribe_filter(w)
    \/ \E w \in Workers : subscribe_delete(w)
    \/ \E w \in Workers : subscribe_create(w)
    \/ \E w \in Workers, kind \in {"favorite", "shopping_cart"},
          user \in User, pk \in {1, 2}, method \in {"POST", "DELETE"} :
          recipe_user_begin(w, kind, user, pk, method)
    \/ \E w \in Workers : recipe_user_get(w)
    \/ \E w \in Workers : recipe_user_insert(w)
    \/ \E w \in Workers : recipe_user_delete(w)

SpecRace == InitRace /\ [][NextRace]_vars

----------------------------------------------------------------------------
(* Updates of one recipe handled at the same time: the statements of       *)
(* RecipeCreateSerializer.update, each committed on its own, interleave.   *)

\* the row of recipe pk as the database holds it now
instance_of(pk) == CHOOSE r \in Recipe : r.id = pk

\* PUT /recipes/{pk}/ arrives at worker w: get_object, is_valid
update_begin(w, user, pk, data) ==
    LET call == [NoCall EXCEPT !.op = "update", !.user = user, !.pk = pk] IN
    /\ free(w)
    /\ calls' = [calls EXCEPT ![w] =
                    IF get_object(db_now, user, pk) # "ok"
                    THEN done(call, get_object(db_now, user, pk))
                    ELSE IF is_valid(data) # "ok"
                    THEN done(call, is_valid(data))
                    ELSE [call EXCEPT !.pc = "ingredients_clear",
                                      !.validated = validated_data(data)]]
    /\ UNCHANGED <<store, Subscription, next_id, request, last_validated,
                   response, payload>>

\* instance.ingredients.clear()
update_ingredients_clear(w) ==
    /\ calls[w].pc = "ingredients_clear"
    /\ RecipeIngredients' =
          ingredients_clear(db_now, calls[w].pk).RecipeIngredients
    /\ calls' = [calls EXCEPT ![w].pc = "tags_clear"]
    /\ UNCHANGED <<Ingredient, Recipe, recipe_tags, Favorite, ShoppingCart,
                   Subscription, next_id, request, last_validated, response,
                   payload>>

\* instance.tags.clear()
update_tags_clear(w) ==
    /\ calls[w].pc = "tags_clear"
    /\ recipe_tags' = tags_clear(db_now, calls[w].pk).recipe_tags
    /\ calls' = [calls EXCEPT ![w].pc = "save"]
    /\ UNCHANGED <<Ingredient, Recipe, RecipeIngredients, Favorite,
                   ShoppingCart, Subscription, next_id, request,
                   last_validated, response, payload>>

\* super().update(instance, validated_data)
update_save(w) ==
    LET saved == save_fields(db_now, instance_of(calls[w].pk),
                             calls[w].validated) IN
    /\ calls[w].pc = "save"
    /\ Recipe' = saved.db.Recipe
    /\ calls' = [calls EXCEPT ![w] =
                    IF saved.status = "ok"
                    THEN [calls[w] EXCEPT !.pc = "tags_set"]
                    ELSE done(calls[w], saved.status)]
    /\ UNCHANGED <<Ingredient, recipe_tags, RecipeIngredients, Favorite,
                   ShoppingCart, Subscription, next_id, request,
                   last_validated, response, payload>>

\* instance.tags.set(tags)
update_tags_set(w) ==
    /\ calls[w].pc = "tags_set"
    /\ recipe_tags' =
          tags_set(db_now, calls[w].pk, calls[w].validated.tags).recipe_tags
    /\ calls' = [calls EXCEPT ![w].pc = "create_recipe_ingredient"]
    /\ UNCHANGED <<Ingredient, Recipe, RecipeIngredients, Favorite,
                   ShoppingCart, Subscription, next_id, request,
                   last_validated, response, payload>>

\* self.create_recipe_ingredient(instance, ingredients)
update_create_recipe_ingredient(w) ==
    LET res == create_recipe_ingredient(db_now, calls[w].pk,
                   calls[w].validated.recipeingredients) IN
    /\ calls[w].pc = "create_recipe_ingredient"
    /\ RecipeIngredients' = res.db.RecipeIngredients
    /\ calls' = [calls EXCEPT ![w] = done(calls[w], res.status)]
    /\ UNCHANGED <<Ingredient, Recipe, recipe_tags, Favorite, ShoppingCart,
                   Subscription, next_id, request, last_validated, response,
                   payload>>

RacePayloads ==
    [tags : {<<1>>, <<2>>},
     ingredients : {<<entry(I(1), I(1))>>, <<entry(I(1), I(2))>>,
                    <<entry(I(2), I(2))>>, <<>>},
     name : {1}, text : {1}, cooking_time : {1}]

NextUpdateRace ==
    \/ \E w \in Workers, user \in Authors, pk \in {1}, data \in RacePayloads :
          update_begin(w, user, pk, data)
    \/ \E w \in Workers : update_ingredients_clear(w)
    \/ \E w \in Workers : update_tags_clear(w)
    \/ \E w \in Workers : update_save(w)
    \/ \E w \in Workers : update_tags_set(w)
    \/ \E w \in Workers : update_create_recipe_ingredient(w)

SpecUpdateRace == InitRace /\ [][NextUpdateRace]_vars

----------------------------------------------------------------------------
(* Reading a recipe back *)

\* the tags of recipe pk in the table rows
tags_of(rows, pk) == {row.tag : row \in {x \in rows : x.recipe = pk}}

\* the (ingredient_id, amount) pairs of recipe pk in the table rows
pairs_of(rows, pk) ==
    {<<row.ingredient, row.amount>> : row \in {x \in rows : x.recipe = pk}}

\* the (ingredient_id, amount) pairs a validated payload submits
submitted(data) ==
    {<<data.recipeingredients[i].id, data.recipeingredients[i].amount>> :
        i \in 1..Len(data.recipeingredients)}

\* recipe pk carries exactly the associations of the validated payload
reflects(tag_rows, ingredient_rows, pk, data) ==
    /\ tags_of(tag_rows, pk) = data.tags
    /\ pairs_of(ingredient_rows, pk) = submitted(data)
    /\ Cardinality({x \in ingredient_rows : x.recipe = pk})
          = Len(data.recipeingredients)

----------------------------------------------------------------------------
(* Claims on the recipe composer (Spec) *)

\* C1: a create request is all-or-nothing: when it has finished, either the
\* recipe row is there with the submitted tags and one RecipeIngredients row
\* per submitted ingredient, or the request has left no row at all.
C1_CreateAllOrNothing ==
    [][request'.op = "create" =>
         \/ /\ response'.status = "ok"
            /\ \E r \in Recipe' : r.id = response'.rid /\ r \notin Recipe
            /\ reflects(recipe_tags', RecipeIngredients', response'.rid,
                        last_validated')
         \/ /\ response'.status # "ok"
            /\ Recipe' = Recipe
            /\ recipe_tags' = recipe_tags
            /\ RecipeIngredients' = RecipeIngredients]_vars

\* C2: an update request is all-or-nothing: when it fails after validation,
\* the recipe row, its tags and its RecipeIngredients rows are what they were
\* before the request; when it succeeds they are those of the payload.
C2_UpdateAllOrNothing ==
    [][(request'.op = "update" /\ last_validated' # NoValidated) =>
         \/ /\ response'.status = "ok"
            /\ \E r \in Recipe' : /\ r.id = request'.pk
                                  /\ r.name = last_validated'.name
            /\ reflects(recipe_tags', RecipeIngredients', request'.pk,
                        last_validated')
         \/ /\ response'.status \in WriteErrors
            /\ Recipe' = Recipe
            /\ recipe_tags' = recipe_tags
            /\ RecipeIngredients' = RecipeIngredients]_vars

\* C3: after a successful create the RecipeIngredients rows of the new recipe,
\* read as (ingredient_id, amount) pairs, are exactly the submitted pairs, in
\* whatever order the payload lists them.
C3_CreateStoresSubmittedSet ==
    (request.op = "create" /\ response.status = "ok") =>
        /\ pairs_of(RecipeIngredients, response.rid) = submitted(last_validated)
        /\ Cardinality({x \in RecipeIngredients : x.recipe = response.rid})
              = Len(last_validated.recipeingredients)

\* C3 witness: a create of two ingredients, listed in descending id order, has
\* succeeded.
C3_Witness ==
    /\ request.op = "create"
    /\ response.status = "ok"
    /\ Len(last_validated.recipeingredients) = 2
    /\ last_validated.recipeingredients[1].id
          > last_validated.recipeingredients[2].id
    /\ Cardinality(pairs_of(RecipeIngredients, response.rid)) = 2

\* C4: after a successful update the recipe's RecipeIngredients set and tag
\* set are exactly the submitted ones; no row of the prior sets survives.
C4_UpdateReplaces ==
    [][(request'.op = "update" /\ response'.status = "ok") =>
         /\ pairs_of(RecipeIngredients', request'.pk)
               = submitted(last_validated')
         /\ tags_of(recipe_tags', request'.pk) = last_validated'.tags]_vars

\* C4 witness: an update has succeeded and the recipe now holds exactly
\* ingredient 2 with amount 2 and tag 1.
C4_Witness ==
    /\ request.op = "update"
    /\ response.status = "ok"
    /\ pairs_of(RecipeIngredients, request.pk) = {<<2, 2>>}
    /\ tags_of(recipe_tags, request.pk) = {1}

\* C8: a create or update request that validation rejects leaves the store
\* unchanged.
C8_RejectedLeavesStore ==
    [][(request'.op \in {"create", "update"}
           /\ response'.status \in ValidationErrors) =>
         /\ Recipe' = Recipe
         /\ recipe_tags' = recipe_tags
         /\ RecipeIngredients' = RecipeIngredients
         /\ Favorite' = Favorite
         /\ ShoppingCart' = ShoppingCart
         /\ next_id' = next_id]_vars

\* C8 witness: an update of an existing recipe with associations has been
\* rejected by validation.
C8_Witness ==
    /\ request.op = "update"
    /\ response.status \in ValidationErrors \ {"FieldError"}
    /\ pairs_of(RecipeIngredients, request.pk) # {}
    /\ tags_of(recipe_tags, request.pk) # {}

\* C16: in every state reached through create and update requests every
\* RecipeIngredients row has an amount >= 1 and no two rows share the same
\* (recipe, ingredient) pair.
C16_RowsPositiveAndUnique ==
    /\ \A row \in RecipeIngredients : row.amount >= 1
    /\ \A row, other \in RecipeIngredients :
          (row.recipe = other.recipe /\ row.ingredient = other.ingredient)
             => row = other

\* C16 witness: an update has left a recipe with two RecipeIngredients rows
\* while another recipe has rows too.
C16_Witness ==
    /\ request.op = "update"
    /\ response.status = "ok"
    /\ Cardinality(pairs_of(RecipeIngredients, request.pk)) = 2
    /\ \E row \in RecipeIngredients : row.recipe # request.pk

----------------------------------------------------------------------------
(* Claims on the recipes of several users (SpecOwner) *)

\* C17: an update or delete request for a recipe by a user who is not its
\* author is rejected and leaves the recipe, its tags and its
\* RecipeIngredients rows as they were; and no request changes the author of
\* a recipe that exists.
C17_OnlyAuthorWrites ==
    [][/\ (/\ request'.op \in {"update", "destroy"}
           /\ \E r \in Recipe : r.id = request'.pk /\ r.author # request'.user)
          => /\ response'.status = "Forbidden"
             /\ Recipe' = Recipe
             /\ recipe_tags' = recipe_tags
             /\ RecipeIngredients' = RecipeIngredients
       /\ \A r \in Recipe : \A r2 \in Recipe' :
             r.id = r2.id => r.author = r2.author]_vars

\* C17 witness: a user's update of the other user's recipe was refused.
C17_Witness ==
    /\ request.op = "update"
    /\ response.status = "Forbidden"
    /\ \E r \in Recipe : r.id = request.pk /\ r.author # request.user
    /\ pairs_of(RecipeIngredients, request.pk) # {}

----------------------------------------------------------------------------
(* Claims on validation (SpecValidate) *)

Entries(data) == 1..Len(data.ingredients)

\* every entry of the payload carries an id and an amount
complete(data) ==
    \A i \in Entries(data) :
        data.ingredients[i].id.k # "none" /\ data.ingredients[i].amount.k # "none"

\* some ingredient id occurs in two entries of the payload
repeats_id(data) ==
    \E i, j \in Entries(data) :
        /\ i < j
        /\ data.ingredients[i].id.k # "none"
        /\ data.ingredients[j].id.k # "none"
        /\ int(data.ingredients[i].id) = int(data.ingredients[j].id)

\* some amount of the payload is not an integer > 0
bad_amount(data) ==
    \E i \in Entries(data) :
        /\ data.ingredients[i].amount.k # "none"
        /\ ~(int(data.ingredients[i].amount) > 0)

\* C5: a payload in which an entry with an id has amount 0 or -1 is rejected
\* with InvalidAmount.  Stated for the payloads that break no other rule, where
\* no other error of the taxonomy can be meant.
C5_ZeroOrNegativeIsInvalidAmount ==
    (/\ response # NoResponse
     /\ ~missing_field(payload)
     /\ complete(payload)
     /\ ~repeats_id(payload)
     /\ \E i \in Entries(payload) :
           int(payload.ingredients[i].amount) \in {0, -1})
    => response.status = "InvalidAmount"

\* C6: a payload whose ingredient list names an ingredient id more than once
\* is rejected with DuplicateIngredient.  Stated for the payloads that break no
\* other rule.
C6_RepeatedIdIsDuplicateIngredient ==
    (/\ response # NoResponse
     /\ ~missing_field(payload)
     /\ complete(payload)
     /\ ~bad_amount(payload)
     /\ repeats_id(payload))
    => response.status = "DuplicateIngredient"

\* the error of the lowest-numbered rule the payload breaks anywhere
lowest_rule(data) ==
    IF missing_field(data) THEN "MissingField"
    ELSE IF ~complete(data) THEN "IncompleteIngredient"
    ELSE IF bad_amount(data) THEN "InvalidAmount"
    ELSE IF repeats_id(data) THEN "DuplicateIngredient"
    ELSE "ok"

entries_error(data, k) ==
    validate_ingredients(SubSeq(data.ingredients, 1, k), 1, {})

----------------------------------------------------------------------------
(* Claims on the shopping list (SpecCart) *)

\* the (name, measurement_unit) pair of the ingredient of a row
pair_of(row) ==
    <<Ingredient[row.ingredient].name,
      Ingredient[row.ingredient].measurement_unit>>

RECURSIVE sum_amounts(_)
sum_amounts(rows) ==
    IF rows = {} THEN 0
    ELSE LET row == CHOOSE r \in rows : TRUE
         IN  row.amount + sum_amounts(rows \ {row})

\* C9: the shopping list of a user has, after the header, exactly one line per
\* distinct (ingredient name, measurement unit) pair of the RecipeIngredients
\* rows of the recipes in that user's cart, and the line's total is the sum of
\* the amounts of the rows with that pair.
C9_OneLinePerPair ==
    request.op = "download" =>
        LET rows == cart_rows(request.user)
            pairs == {pair_of(row) : row \in rows}
            lines == Tail(response.body)
        IN  /\ response.body[1] = Header
            /\ Len(lines) = Cardinality(pairs)
            /\ \A pr \in pairs : \E i \in 1..Len(lines) :
                  /\ lines[i].key = key(pr[1], pr[2])
                  /\ lines[i].amount
                        = sum_amounts({row \in rows : pair_of(row) = pr})

\* the name the line stands under: the name of the row that opened it, the
\* first in the order of the queryset among the rows formatted to its label
line_name(line, rows) ==
    LET names == {Ingredient[row.ingredient].name :
                     row \in {x \in rows :
                                key(pair_of(x)[1], pair_of(x)[2]) = line.key}}
    IN  CHOOSE n \in names : \A m \in names : LexLeq(n, m)

\* C14: the ingredient lines of the shopping list are in ascending order of
\* the ingredient name: the name on each line is less than or equal to the
\* name on the next line.
C14_LinesAscendByName ==
    request.op = "download" =>
        LET rows == cart_rows(request.user)
            lines == Tail(response.body)
        IN  \A i \in 1..(Len(lines) - 1) :
                LexLeq(line_name(lines[i], rows),
                       line_name(lines[i + 1], rows))

\* C14 witness: a list of two lines under different names, drawn from two
\* recipes of the cart that both hold the ingredient of the first line.
C14_Witness ==
    /\ request.op = "download"
    /\ Len(response.body) = 3
    /\ response.body[2].amount = 3
    /\ Cardinality({row \in ShoppingCart : row.user = request.user}) = 2
    /\ line_name(response.body[2], cart_rows(request.user))
          # line_name(response.body[3], cart_rows(request.user))

\* C15: for a user whose cart is empty the shopping-list request succeeds and
\* the report is the header line alone.
C15_EmptyCartHeaderOnly ==
    (/\ request.op = "download"
     /\ ~\E row \in ShoppingCart : row.user = request.user)
    => /\ response.status = "ok"
       /\ response.body = <<Header>>

\* C15 witness: a user with an empty cart has downloaded the list while a
\* recipe with ingredients is in the cart of the other user.
C15_Witness ==
    /\ request.op = "download"
    /\ ~\E row \in ShoppingCart : row.user = request.user
    /\ response.body = <<Header>>
    /\ cart_rows_of_everyone(request.user) # {}

----------------------------------------------------------------------------
(* Claims on favorites and carts (SpecToggle) *)

\* a step of the two-state machine of the pair (user, recipe) of the request:
\* kind_add adds the pair when absent, kind_del removes it when present
toggle_step(kind_add, kind_del, before, after) ==
    LET pair == [user |-> request'.user, recipe |-> request'.pk] IN
    (\E r \in Recipe : r.id = request'.pk) =>
        /\ request'.op = kind_add =>
              IF pair \in before
              THEN response'.status = "AlreadyExists" /\ after = before
              ELSE response'.status = "Created" /\ after = before \cup {pair}
        /\ request'.op = kind_del =>
              IF pair \in before
              THEN response'.status = "NoContent" /\ after = before \ {pair}
              ELSE response'.status = "NotFound" /\ after = before

\* C10: Favorite and ShoppingCart are two-state machines per (user, recipe):
\* an add succeeds exactly when the pair is absent and makes it present, a
\* remove succeeds exactly when it is present and makes it absent; an add while
\* present is answered AlreadyExists, a remove while absent NotFound, both
\* leaving the table as it was.
C10_TwoStateMachine ==
    [][/\ toggle_step("favorite_POST", "favorite_DELETE", Favorite, Favorite')
       /\ toggle_step("shopping_cart_POST", "shopping_cart_DELETE",
                      ShoppingCart, ShoppingCart')]_vars

\* C10 witness: a second add of a favorite that is present was rejected.
C10_Witness ==
    /\ request.op = "favorite_POST"
    /\ response.status = "AlreadyExists"
    /\ [user |-> request.user, recipe |-> request.pk] \in Favorite

----------------------------------------------------------------------------
(* Claims on requests handled at the same time (SpecRace) *)

\* the join row of an add request is in its table, the tables given
joined(call, favorites, carts, subscriptions) ==
    IF call.op = "subscribe_POST"
    THEN [user |-> call.user, author |-> call.pk] \in subscriptions
    ELSE IF call.op = "favorite_POST" THEN row_of(call) \in favorites
    ELSE row_of(call) \in carts

\* the target of the request exists and may be joined to its user
addable(call) ==
    IF call.op = "subscribe_POST"
    THEN call.pk \in User /\ call.pk # call.user
    ELSE \E r \in Recipe : r.id = call.pk

\* C11: a subscribe (add) request whose author is the requesting user is
\* answered SelfSubscription, whatever subscribe and unsubscribe requests came
\* before it or run beside it, and no Subscription row with user = author is
\* ever there.
C11_SelfSubscriptionRejected ==
    /\ \A w \in Workers :
          (/\ calls[w].pc = "done"
           /\ calls[w].op = "subscribe_POST"
           /\ calls[w].pk = calls[w].user)
          => calls[w].status = "SelfSubscription"
    /\ \A row \in Subscription : row.user # row.author

\* C11 witness: a user who holds a subscription to another author was answered
\* SelfSubscription.
C11_Witness ==
    \E w \in Workers :
        /\ calls[w].pc = "done"
        /\ calls[w].op = "subscribe_POST"
        /\ calls[w].pk = calls[w].user
        /\ calls[w].status = "SelfSubscription"
        /\ \E row \in Subscription : row.user = calls[w].user

\* C12: add requests of one kind for one (user, target) pair that run at the
\* same time resolve through the unique constraint: every add request ends
\* either having created the join row, which was absent, or answered
\* AlreadyExists with the row there and the tables untouched; so of two
\* requests racing from the absent state one creates the row and the other is
\* answered AlreadyExists, and none ends in an unhandled constraint error.
C12_ConcurrentAddsResolve ==
    [][\A w \in Workers :
          (/\ calls'[w] # calls[w]
           /\ calls'[w].pc = "done"
           /\ calls'[w].op \in {"favorite_POST", "shopping_cart_POST",
                                "subscribe_POST"}
           /\ addable(calls'[w]))
          => \/ /\ calls'[w].status = "Created"
                /\ ~joined(calls'[w], Favorite, ShoppingCart, Subscription)
                /\ joined(calls'[w], Favorite', ShoppingCart', Subscription')
             \/ /\ calls'[w].status = "AlreadyExists"
                /\ joined(calls'[w], Favorite, ShoppingCart, Subscription)
                /\ UNCHANGED <<Favorite, ShoppingCart, Subscription>>]_vars

----------------------------------------------------------------------------
(* Claims on updates handled at the same time (SpecUpdateRace) *)

\* both workers have come to the end of an accepted update of recipe pk
both_updated(pk) ==
    \A w \in Workers :
        /\ calls[w].pc = "done"
        /\ calls[w].op = "update"
        /\ calls[w].pk = pk
        /\ calls[w].validated # NoValidated

\* C13: when two updates of one recipe have run, in whatever interleaving of
\* their clear and recreate statements, neither has failed and the recipe's
\* tag set and RecipeIngredients set are exactly those submitted by one of the
\* two: never a mix of both payloads, never empty.
C13_LastWriterWins ==
    \A pk \in RecipeIds :
        both_updated(pk) =>
            /\ \A w \in Workers : calls[w].status = "ok"
            /\ \E w \in Workers :
                  reflects(recipe_tags, RecipeIngredients, pk,
                           calls[w].validated)

=============================================================================
